---- MODULE Spec2Model ----
(***************************************************************************)
(* docker-dev (src/main.go): swap a container for a development variant    *)
(* and restore the original when the session ends.                         *)
(*                                                                         *)
(* The model has three threads of the program -- main (the controller),    *)
(* the attach goroutine of startDevContainer and the wait goroutine of     *)
(* main -- the signal channel sigCh, and the container engine the program  *)
(* talks to (the containers, their names and states).  Every engine call   *)
(* of the program is one step whose result (nil or an error) is chosen     *)
(* by the engine.                                                          *)
(***************************************************************************)
EXTENDS Integers, Sequences, FiniteSets, TLC

\* Spare capacity (cap - len) the decoded Env slice of the inspected
\* container may have: 0..MaxSlack.
MaxSlack == 1

None == [none |-> TRUE]

\* ------------------------------------------------------------ flags, main.go:234-240
NameFlags == {"api", "ap"}
newImage == "docker-dev-golang:latest"
sourcePath == "/src"
targetPath == "/app"
HOME == "/home/u"

\* ------------------------------------------------------------ engine
IDs == 1..4
OrigID == 2

\* Environment lists the original container may have been created with.
EnvLists ==
    { <<>>,
      <<"PATH=/bin">>,
      <<"A=1", "PATHEXT=x", "PATH=/bin">>,
      <<"TZ">> }

\* Bounds of the inputs the derivation is tried on.
MaxEnvLen == 2

\* Environment entries: the variable PATH, variables whose names begin with
\* or fall short of those letters, and entries of fewer than four bytes.
EnvEntries == { "PATH=/bin", "PATHEXT=x", "HOME=/root", "PAT=1", "TZ" }

RECURSIVE SeqsUpTo(_, _)
SeqsUpTo(S, n) ==
    IF n = 0 THEN { <<>> }
    ELSE LET shorter == SeqsUpTo(S, n - 1)
         IN  shorter \cup { Append(q, x) : q \in { r \in shorter : Len(r) = n - 1 }, x \in S }

DeriveEnvLists == SeqsUpTo(EnvEntries, MaxEnvLen)

\* Mount lists the original container may have been created with.
MountLists ==
    { <<>>,
      << [Type |-> "volume", Source |-> "data", Target |-> "/data"] >>,
      << [Type |-> "bind", Source |-> "/etc/api", Target |-> "/etc/api"],
         [Type |-> "bind", Source |-> "/src", Target |-> "/app"] >> }

OrigSpec(env) ==
    [ Config |-> [ Image |-> "api:1", WorkingDir |-> "/srv", Cmd |-> <<"serve">>,
                   Entrypoint |-> <<"/api">>, Env |-> env,
                   AttachStdin |-> FALSE, AttachStdout |-> FALSE,
                   AttachStderr |-> FALSE, Tty |-> FALSE, OpenStdin |-> FALSE,
                   StdinOnce |-> FALSE ],
      HostConfig |-> [ Mounts |-> << [Type |-> "volume", Source |-> "data",
                                      Target |-> "/data"] >> ],
      Networks |-> {"backend"} ]

DbSpec ==
    [ OrigSpec(<<>>) EXCEPT !.Config.Image = "db:1" ]

\* The one value every sender puts on sigCh.
os_Interrupt == "interrupt"

Absent == [names |-> <<>>, state |-> "absent", status |-> 0, spec |-> None]

VARIABLES
    containerName,   \* the -name flag
    engine,          \* ID -> [names, state, status, spec]: the engine's containers
    heap,            \* backing arrays of the Env slices the program holds
    pc,              \* main's position
    exitCode,        \* -1 while the process runs, else its exit status
    exitBy,          \* which thread ended the process
    containerID,     \* main.go:257
    containerJSON,   \* main.go:263, the snapshot
    dev,             \* config, hostConfig, networkingConfig, name of main.go:270-272
    resp,            \* ID of the dev container (0: none), main.go:278
    notified,        \* signal.Notify(sigCh, os.Interrupt) was called
    sigCh,           \* the buffered channel of capacity 1
    attach,          \* position of the goroutine of main.go:117-124
    waiter,          \* position of the goroutine of main.go:280-285
    calls,           \* every engine call issued so far, in order
    snap0,           \* history: the snapshot's values when inspect returned
    hist             \* history: interrupts, and what fired while main was in RUN

vars == << containerName, engine, heap, pc, exitCode, exitBy, containerID,
           containerJSON, dev, resp, notified, sigCh, attach, waiter, calls,
           snap0, hist >>

\* ------------------------------------------------------------ Go slices
\* A slice is [ptr, len, cap] over the array heap[ptr]; its elements:
Elems(h, s) == SubSeq(h[s.ptr], 1, s.len)

\* append(s, x): writes in place when there is spare capacity, else copies to
\* a new array.  Returns the new heap and the new slice.
goAppend(h, s, x) ==
    IF s.len < s.cap
    THEN [ heap |-> [h EXCEPT ![s.ptr][s.len + 1] = x],
           slice |-> [s EXCEPT !.len = s.len + 1] ]
    ELSE [ heap |-> Append(h, Append(Elems(h, s), x)),
           slice |-> [ptr |-> Len(h) + 1, len |-> s.len + 1, cap |-> s.len + 1] ]

\* What a configuration holds, slices read through the heap.
ConfigValue(h, c) == [c EXCEPT !.Env = Elems(h, c.Env)]

\* ------------------------------------------------------------ getContainerIDByName
\* ContainerList(All: true): every container, running or not.
ContainerList == { i \in IDs : engine[i].state # "absent" }

NameIn(names, n) == \E k \in 1..Len(names) : names[k] = n

\* As getContainerIDByName, but matching with strings.HasPrefix instead of ==.
getContainerIDByPrefix(name) ==
    LET want == "/" \o name
        hits == { i \in ContainerList :
                    \E k \in 1..Len(engine[i].names) :
                        /\ Len(engine[i].names[k]) >= Len(want)
                        /\ SubSeq(engine[i].names[k], 1, Len(want)) = want }
    IN  IF hits = {} THEN 0 ELSE CHOOSE i \in hits : \A j \in hits : i <= j

\* The ID of the first listed container one of whose names is "/" + name;
\* 0 stands for the "not found" error.
getContainerIDByName(name) ==
    LET hits == { i \in ContainerList : NameIn(engine[i].names, "/" \o name) }
    IN  IF hits = {} THEN 0 ELSE CHOOSE i \in hits : \A j \in hits : i <= j

\* ------------------------------------------------------------ devContainerConfiguration
\* The loop of main.go:174-179 from entry i on: env[:4] panics on an entry
\* shorter than four bytes; the first entry whose first four bytes are "PATH"
\* is taken.
RECURSIVE findPath(_, _)
findPath(env, i) ==
    IF i > Len(env) THEN [panic |-> FALSE, path |-> ""]
    ELSE IF Len(env[i]) < 4 THEN [panic |-> TRUE, path |-> ""]
    ELSE IF SubSeq(env[i], 1, 4) = "PATH" THEN [panic |-> FALSE, path |-> env[i]]
    ELSE findPath(env, i + 1)

devMounts ==
    << [Type |-> "bind", Source |-> sourcePath, Target |-> targetPath],
       [Type |-> "bind", Source |-> HOME \o "/.ssh", Target |-> "/root/.ssh"],
       [Type |-> "bind", Source |-> HOME \o "/.gitconfig", Target |-> "/root/.gitconfig"],
       [Type |-> "bind", Source |-> HOME \o "/go/pkg", Target |-> "/go/pkg"] >>

\* As devContainerConfiguration, but with `config := containerJSON.Config`
\* (the pointer, not a copy of the struct): the writes land in the snapshot.
devContainerConfigurationAliased(h, cj) ==
    LET c0 == [cj.Config EXCEPT !.Image = newImage, !.WorkingDir = targetPath,
                                !.Cmd = <<>>, !.Entrypoint = <<"/bin/sh">>]
        f  == findPath(Elems(h, c0.Env), 1)
        a1 == goAppend(h, c0.Env, f.path \o ":/go/bin:/usr/local/go/bin")
        a2 == goAppend(a1.heap, a1.slice, "DEV_CONTAINER=true")
        c1 == [c0 EXCEPT !.Env = a2.slice,
                         !.AttachStdin = TRUE, !.AttachStdout = TRUE,
                         !.AttachStderr = TRUE, !.Tty = TRUE,
                         !.OpenStdin = TRUE, !.StdinOnce = TRUE]
    IN  [ panic |-> f.panic,
          heap |-> a2.heap,
          containerJSON |-> [cj EXCEPT !.Config = c1],
          config |-> c1,
          hostConfig |-> [cj.HostConfig EXCEPT !.Mounts = devMounts],
          networkingConfig |-> [EndpointsConfig |-> cj.NetworkSettings.Networks] ]

\* As devContainerConfiguration, but appending the four mounts to the mounts
\* the original container had.
devContainerConfigurationMerged(h, cj) ==
    LET c0 == [cj.Config EXCEPT !.Image = newImage, !.WorkingDir = targetPath,
                                !.Cmd = <<>>, !.Entrypoint = <<"/bin/sh">>]
        f  == findPath(Elems(h, c0.Env), 1)
        a1 == goAppend(h, c0.Env, f.path \o ":/go/bin:/usr/local/go/bin")
        a2 == goAppend(a1.heap, a1.slice, "DEV_CONTAINER=true")
    IN  [ panic |-> f.panic,
          heap |-> a2.heap,
          containerJSON |-> cj,
          config |-> [c0 EXCEPT !.Env = a2.slice,
                                !.AttachStdin = TRUE, !.AttachStdout = TRUE,
                                !.AttachStderr = TRUE, !.Tty = TRUE,
                                !.OpenStdin = TRUE, !.StdinOnce = TRUE],
          hostConfig |-> [cj.HostConfig EXCEPT !.Mounts = cj.HostConfig.Mounts \o devMounts],
          networkingConfig |-> [EndpointsConfig |-> cj.NetworkSettings.Networks] ]

\* main.go:164-224 on the snapshot cj and heap h.  The function gets a pointer
\* to the snapshot, so the result names the snapshot as the function leaves it.
devContainerConfiguration(h, cj) ==
    LET c0 == [cj.Config EXCEPT !.Image = newImage, !.WorkingDir = targetPath,
                                !.Cmd = <<>>, !.Entrypoint = <<"/bin/sh">>]
        f  == findPath(Elems(h, c0.Env), 1)
        a1 == goAppend(h, c0.Env, f.path \o ":/go/bin:/usr/local/go/bin")
        a2 == goAppend(a1.heap, a1.slice, "DEV_CONTAINER=true")
    IN  [ panic |-> f.panic,
          heap |-> a2.heap,
          containerJSON |-> cj,
          config |-> [c0 EXCEPT !.Env = a2.slice,
                                !.AttachStdin = TRUE, !.AttachStdout = TRUE,
                                !.AttachStderr = TRUE, !.Tty = TRUE,
                                !.OpenStdin = TRUE, !.StdinOnce = TRUE],
          hostConfig |-> [cj.HostConfig EXCEPT !.Mounts = devMounts],
          networkingConfig |-> [EndpointsConfig |-> cj.NetworkSettings.Networks] ]

\* ------------------------------------------------------------ initial state
\* The engine before the program runs: a container "db" (also known by a link
\* alias) and the container "api", running or stopped.
Engine0(env, st) ==
    [ i \in IDs |->
        IF i = 1 THEN [names |-> <<"/db", "/api/db">>, state |-> "running",
                       status |-> 0, spec |-> DbSpec]
        ELSE IF i = OrigID THEN [names |-> <<"/api">>, state |-> st,
                                 status |-> 0, spec |-> OrigSpec(env)]
        ELSE Absent ]

Init ==
    /\ containerName \in NameFlags
    /\ \E env \in EnvLists, st \in {"running", "exited"} : engine = Engine0(env, st)
    /\ heap = <<>>
    /\ pc = "list"
    /\ exitCode = -1
    /\ exitBy = "none"
    /\ containerID = 0
    /\ containerJSON = None
    /\ dev = None
    /\ resp = 0
    /\ notified = FALSE
    /\ sigCh = <<>>
    /\ attach = "none"
    /\ waiter = "none"
    /\ calls = <<>>
    /\ snap0 = None
    /\ hist = [interrupted |-> FALSE, intrRun |-> FALSE, selfExitRun |-> FALSE,
               attachRun |-> FALSE, recv |-> 0]

Alive == exitCode = -1

\* One engine call in the log.
Call(by, op, id, ok, arg) == [by |-> by, op |-> op, id |-> id, ok |-> ok, arg |-> arg]

\* os.Exit(code) from thread `by`: log.Fatalf exits 1, an unrecovered panic 2.
Exit(code, by) ==
    /\ exitCode' = code
    /\ exitBy' = by
    /\ pc' = "exited"

\* ------------------------------------------------------------ the engine's answers
Exists(id) == id \in IDs /\ engine[id].state # "absent"
Running(id) == id \in IDs /\ engine[id].state = "running"

\* IDs are never reused: the next one follows those handed out so far.
NextID ==
    OrigID + 1 + Cardinality({ k \in DOMAIN calls : calls[k].op = "create" /\ calls[k].ok })

NameFree(n) == \A i \in ContainerList : ~NameIn(engine[i].names, n)

\* What ContainerInspect answers for a container record c with ID id, its Env
\* decoded into a fresh array at heap index ptr with `slack` spare elements.
InspectOf(c, id, ptr, slack) ==
    LET sp == c.spec
        n  == Len(sp.Config.Env)
    IN  [ ID |-> id,
          Name |-> c.names[1],
          Config |-> [sp.Config EXCEPT !.Env = [ptr |-> ptr, len |-> n, cap |-> n + slack]],
          HostConfig |-> sp.HostConfig,
          NetworkSettings |-> [Networks |-> sp.Networks],
          State |-> [Running |-> c.state = "running"] ]

\* ContainerInspect of container id.
ContainerInspect(id, ptr, slack) == InspectOf(engine[id], id, ptr, slack)

\* The array that the Env of container record c is decoded into.
EnvArrayOf(c, slack) == c.spec.Config.Env \o [k \in 1..slack |-> ""]

EnvArray(id, slack) == EnvArrayOf(engine[id], slack)

\* The values a ContainerJSON holds: what recreation must reproduce.
SnapshotValue(h, cj) ==
    [ Name |-> cj.Name, Config |-> ConfigValue(h, cj.Config),
      HostConfig |-> cj.HostConfig, Networks |-> cj.NetworkSettings.Networks ]

\* The arguments of a ContainerCreate as the engine receives them.
CreateArg(h, config, hostConfig, networkingConfig, name) ==
    [ Name |-> name, Config |-> ConfigValue(h, config), HostConfig |-> hostConfig,
      Networks |-> networkingConfig.EndpointsConfig ]

\* ContainerStop with timeout 0 that returned nil: the container is killed.
Stopped(id) ==
    IF engine[id].state = "running"
    THEN [engine EXCEPT ![id].state = "exited", ![id].status = 137]
    ELSE engine

Created(id, arg) ==
    [engine EXCEPT ![id] = [ names |-> <<arg.Name>>, state |-> "created", status |-> 0,
                             spec |-> [Config |-> arg.Config, HostConfig |-> arg.HostConfig,
                                       Networks |-> arg.Networks] ]]

\* ------------------------------------------------------------ main, LOCATE and SNAPSHOT
\* main.go:257-260 with getContainerIDByName (main.go:23-38).
MainLocate ==
    /\ Alive /\ pc = "list"
    /\ \E ok \in BOOLEAN :
         /\ calls' = Append(calls, Call("main", "list", 0, ok, None))
         /\ IF ok /\ getContainerIDByName(containerName) # 0
            THEN /\ containerID' = getContainerIDByName(containerName)
                 /\ pc' = "inspect"
                 /\ UNCHANGED << exitCode, exitBy >>
            ELSE /\ Exit(1, "main")
                 /\ UNCHANGED containerID
    /\ UNCHANGED << containerName, engine, heap, containerJSON, dev, resp, notified,
                    sigCh, attach, waiter, snap0, hist >>

\* As MainSnapshot, but going on to the stop when the inspect failed.
MainSnapshotUnchecked ==
    /\ Alive /\ pc = "inspect"
    /\ \E ok \in BOOLEAN, slack \in 0..MaxSlack :
         /\ ok => Exists(containerID)
         /\ calls' = Append(calls, Call("main", "inspect", containerID, ok, None))
         /\ IF ok
            THEN /\ heap' = Append(heap, EnvArray(containerID, slack))
                 /\ containerJSON' = ContainerInspect(containerID, Len(heap) + 1, slack)
                 /\ snap0' = SnapshotValue(heap', containerJSON')
            ELSE UNCHANGED << heap, containerJSON, snap0 >>
    /\ pc' = "stop_orig"
    /\ UNCHANGED << containerName, engine, containerID, dev, resp, notified, sigCh,
                    attach, waiter, hist, exitCode, exitBy >>

\* main.go:263-266.
MainSnapshot ==
    /\ Alive /\ pc = "inspect"
    /\ \E ok \in BOOLEAN, slack \in 0..MaxSlack :
         /\ ok => Exists(containerID)
         /\ calls' = Append(calls, Call("main", "inspect", containerID, ok, None))
         /\ IF ok
            THEN /\ heap' = Append(heap, EnvArray(containerID, slack))
                 /\ containerJSON' = ContainerInspect(containerID, Len(heap) + 1, slack)
                 /\ snap0' = SnapshotValue(heap', containerJSON')
                 /\ pc' = "stop_orig"
                 /\ UNCHANGED << exitCode, exitBy >>
            ELSE /\ Exit(1, "main")
                 /\ UNCHANGED << heap, containerJSON, snap0 >>
    /\ UNCHANGED << containerName, engine, containerID, dev, resp, notified, sigCh,
                    attach, waiter, hist >>

\* ------------------------------------------------------------ removeOriginalContainer
\* main.go:92-95.
RemoveOriginalStop ==
    /\ Alive /\ pc = "stop_orig"
    /\ \E ok \in BOOLEAN :
         /\ ok => Exists(containerID)
         /\ calls' = Append(calls, Call("main", "stop", containerID, ok, None))
         /\ IF ok
            THEN /\ engine' = Stopped(containerID)
                 /\ pc' = "wait_orig"
                 /\ UNCHANGED << exitCode, exitBy >>
            ELSE /\ Exit(1, "main")
                 /\ UNCHANGED engine
    /\ UNCHANGED << containerName, heap, containerID, containerJSON, dev, resp, notified,
                    sigCh, attach, waiter, snap0, hist >>

\* waitForContainerStop (main.go:40-53) on container id: the wait body arrives
\* once the container is not running; the error channel may fire at any time
\* and does so when the container does not exist.  Either way the function
\* only prints and returns.
waitForContainerStop(by, id) ==
    \E ok \in BOOLEAN :
        /\ ok => (Exists(id) /\ ~Running(id))
        /\ calls' = Append(calls, Call(by, "wait", id, ok, None))

\* main.go:97.
RemoveOriginalWait ==
    /\ Alive /\ pc = "wait_orig"
    /\ waitForContainerStop("main", containerID)
    /\ pc' = "remove_orig"
    /\ UNCHANGED << containerName, engine, heap, exitCode, exitBy, containerID,
                    containerJSON, dev, resp, notified, sigCh, attach, waiter, snap0, hist >>

\* As RemoveOriginalRemove, but dropping the error of ContainerRemove.
RemoveOriginalRemoveUnchecked ==
    /\ Alive /\ pc = "remove_orig"
    /\ \E ok \in BOOLEAN :
         /\ ok => (Exists(containerID) /\ ~Running(containerID))
         /\ calls' = Append(calls, Call("main", "remove", containerID, ok, None))
         /\ engine' = IF ok THEN [engine EXCEPT ![containerID] = Absent] ELSE engine
    /\ pc' = "derive"
    /\ UNCHANGED << containerName, heap, containerID, containerJSON, dev, resp, notified,
                    sigCh, attach, waiter, snap0, hist, exitCode, exitBy >>

\* main.go:99-101.  The engine refuses to remove a running container.
RemoveOriginalRemove ==
    /\ Alive /\ pc = "remove_orig"
    /\ \E ok \in BOOLEAN :
         /\ ok => (Exists(containerID) /\ ~Running(containerID))
         /\ calls' = Append(calls, Call("main", "remove", containerID, ok, None))
         /\ IF ok
            THEN /\ engine' = [engine EXCEPT ![containerID] = Absent]
                 /\ pc' = "derive"
                 /\ UNCHANGED << exitCode, exitBy >>
            ELSE /\ Exit(1, "main")
                 /\ UNCHANGED engine
    /\ UNCHANGED << containerName, heap, containerID, containerJSON, dev, resp, notified,
                    sigCh, attach, waiter, snap0, hist >>

\* ------------------------------------------------------------ main, DERIVE
\* main.go:270-272.  A panic of devContainerConfiguration ends the process
\* with status 2.
MainDerive ==
    /\ Alive /\ pc = "derive"
    /\ LET r == devContainerConfiguration(heap, containerJSON)
       IN  IF r.panic
           THEN /\ Exit(2, "main")
                /\ UNCHANGED << heap, containerJSON, dev >>
           ELSE /\ heap' = r.heap
                /\ containerJSON' = r.containerJSON
                /\ dev' = [ config |-> r.config, hostConfig |-> r.hostConfig,
                            networkingConfig |-> r.networkingConfig,
                            name |-> containerJSON.Name \o "-dev" ]
                /\ pc' = "notify"
                /\ UNCHANGED << exitCode, exitBy >>
    /\ UNCHANGED << containerName, engine, containerID, resp, notified, sigCh, attach,
                    waiter, calls, snap0, hist >>

\* main.go:275-276.
MainNotify ==
    /\ Alive /\ pc = "notify"
    /\ notified' = TRUE
    /\ sigCh' = <<>>
    /\ pc' = "create_dev"
    /\ UNCHANGED << containerName, engine, heap, exitCode, exitBy, containerID,
                    containerJSON, dev, resp, attach, waiter, calls, snap0, hist >>

\* ------------------------------------------------------------ startDevContainer
\* main.go:106-124: create the dev container, then start the attach goroutine.
StartDevCreate ==
    /\ Alive /\ pc = "create_dev"
    /\ LET arg == CreateArg(heap, dev.config, dev.hostConfig, dev.networkingConfig, dev.name)
       IN  \E ok \in BOOLEAN :
             /\ ok => (NameFree(arg.Name) /\ NextID \in IDs)
             /\ calls' = Append(calls, Call("main", "create", IF ok THEN NextID ELSE 0, ok, arg))
             /\ IF ok
                THEN /\ engine' = Created(NextID, arg)
                     /\ resp' = NextID
                     /\ attach' = "run"
                     /\ pc' = "start_dev"
                     /\ UNCHANGED << exitCode, exitBy >>
                ELSE /\ Exit(1, "main")
                     /\ UNCHANGED << engine, resp, attach >>
    /\ UNCHANGED << containerName, heap, containerID, containerJSON, dev, notified,
                    sigCh, waiter, snap0, hist >>

\* main.go:129-133 and, back in main, 280-285: start the dev container, then
\* start the wait goroutine.
StartDevStart ==
    /\ Alive /\ pc = "start_dev"
    /\ \E ok \in BOOLEAN :
         /\ ok => Exists(resp)
         /\ calls' = Append(calls, Call("main", "start", resp, ok, None))
         /\ IF ok
            THEN /\ engine' = [engine EXCEPT ![resp].state = "running"]
                 /\ waiter' = "wait"
                 /\ pc' = "recv"
                 /\ UNCHANGED << exitCode, exitBy >>
            ELSE /\ Exit(1, "main")
                 /\ UNCHANGED << engine, waiter >>
    /\ UNCHANGED << containerName, heap, containerID, containerJSON, dev, resp, notified,
                    sigCh, attach, snap0, hist >>

\* main.go:118-121: cmd.Run() of `docker attach` returns, at a time and with
\* a result the attach process chooses; on an error the goroutine calls
\* log.Fatalf, which exits the process with status 1.
AttachRun ==
    /\ Alive /\ attach = "run"
    /\ \E err \in BOOLEAN :
         IF err
         THEN /\ Exit(1, "attach")
              /\ UNCHANGED attach
         ELSE /\ attach' = "send"
              /\ UNCHANGED << pc, exitCode, exitBy >>
    /\ hist' = [hist EXCEPT !.attachRun = hist.attachRun \/ pc = "recv"]
    /\ UNCHANGED << containerName, engine, heap, containerID, containerJSON, dev, resp,
                    notified, sigCh, waiter, calls, snap0 >>

\* main.go:123: sigCh <- os.Interrupt blocks while the buffer is full.
AttachSend ==
    /\ Alive /\ attach = "send"
    /\ Len(sigCh) < 1
    /\ sigCh' = Append(sigCh, os_Interrupt)
    /\ attach' = "done"
    /\ UNCHANGED << containerName, engine, heap, pc, exitCode, exitBy, containerID,
                    containerJSON, dev, resp, notified, waiter, calls, snap0, hist >>

\* As WaiterWait, but with a watcher that ends without a word when the wait
\* returned an error.
WaiterWaitErrorSilent ==
    /\ Alive /\ waiter = "wait"
    /\ waitForContainerStop("waiter", resp)
    /\ waiter' = IF calls'[Len(calls')].ok THEN "send" ELSE "done"
    /\ UNCHANGED << containerName, engine, heap, pc, exitCode, exitBy, containerID,
                    containerJSON, dev, resp, notified, sigCh, attach, snap0, hist >>

\* main.go:282-283.
WaiterWait ==
    /\ Alive /\ waiter = "wait"
    /\ waitForContainerStop("waiter", resp)
    /\ waiter' = "send"
    /\ UNCHANGED << containerName, engine, heap, pc, exitCode, exitBy, containerID,
                    containerJSON, dev, resp, notified, sigCh, attach, snap0, hist >>

\* main.go:284.
WaiterSend ==
    /\ Alive /\ waiter = "send"
    /\ Len(sigCh) < 1
    /\ sigCh' = Append(sigCh, os_Interrupt)
    /\ waiter' = "done"
    /\ UNCHANGED << containerName, engine, heap, pc, exitCode, exitBy, containerID,
                    containerJSON, dev, resp, notified, attach, calls, snap0, hist >>

\* ------------------------------------------------------------ main, RUN
\* main.go:287-288.
MainReceive ==
    /\ Alive /\ pc = "recv"
    /\ sigCh # <<>>
    /\ sigCh' = Tail(sigCh)
    /\ hist' = [hist EXCEPT !.recv = hist.recv + 1]
    /\ pc' = "inspect_dev"
    /\ UNCHANGED << containerName, engine, heap, exitCode, exitBy, containerID,
                    containerJSON, dev, resp, notified, attach, waiter, calls, snap0 >>

\* ------------------------------------------------------------ cleanupDevContainer
\* As CleanupInspect, but stopping the dev container whatever the inspect
\* reported.
CleanupInspectAlwaysStop ==
    /\ Alive /\ pc = "inspect_dev"
    /\ \E ok \in BOOLEAN :
         /\ ok => Exists(resp)
         /\ calls' = Append(calls, Call("main", "inspect", resp, ok,
                                IF ok THEN [Running |-> ContainerInspect(resp, 0, 0).State.Running]
                                      ELSE None))
         /\ IF ok
            THEN /\ pc' = "stop_dev"
                 /\ UNCHANGED << exitCode, exitBy >>
            ELSE Exit(2, "main")
    /\ UNCHANGED << containerName, engine, heap, containerID, containerJSON, dev, resp,
                    notified, sigCh, attach, waiter, snap0, hist >>

\* main.go:70-75: a failed inspect panics (status 2).
CleanupInspect ==
    /\ Alive /\ pc = "inspect_dev"
    /\ \E ok \in BOOLEAN :
         /\ ok => Exists(resp)
         /\ calls' = Append(calls, Call("main", "inspect", resp, ok,
                                IF ok THEN [Running |-> ContainerInspect(resp, 0, 0).State.Running]
                                      ELSE None))
         /\ IF ok
            THEN /\ pc' = IF ContainerInspect(resp, 0, 0).State.Running
                          THEN "stop_dev" ELSE "remove_dev"
                 /\ UNCHANGED << exitCode, exitBy >>
            ELSE Exit(2, "main")
    /\ UNCHANGED << containerName, engine, heap, containerID, containerJSON, dev, resp,
                    notified, sigCh, attach, waiter, snap0, hist >>

\* main.go:76-77: the error of ContainerStop is dropped.
CleanupStop ==
    /\ Alive /\ pc = "stop_dev"
    /\ \E ok \in BOOLEAN :
         /\ ok => Exists(resp)
         /\ calls' = Append(calls, Call("main", "stop", resp, ok, None))
         /\ engine' = IF ok THEN Stopped(resp) ELSE engine
    /\ pc' = "wait_dev"
    /\ UNCHANGED << containerName, heap, exitCode, exitBy, containerID, containerJSON,
                    dev, resp, notified, sigCh, attach, waiter, snap0, hist >>

\* As CleanupWait, but waiting for the wait goroutine's signal on sigCh
\* instead of calling ContainerWait: a second receive.
CleanupWaitOnChannel ==
    /\ Alive /\ pc = "wait_dev"
    /\ sigCh # <<>>
    /\ sigCh' = Tail(sigCh)
    /\ hist' = [hist EXCEPT !.recv = hist.recv + 1]
    /\ pc' = "remove_dev"
    /\ UNCHANGED << containerName, engine, heap, exitCode, exitBy, containerID,
                    containerJSON, dev, resp, notified, attach, waiter, calls, snap0 >>

\* main.go:78.
CleanupWait ==
    /\ Alive /\ pc = "wait_dev"
    /\ waitForContainerStop("main", resp)
    /\ pc' = "remove_dev"
    /\ UNCHANGED << containerName, engine, heap, exitCode, exitBy, containerID,
                    containerJSON, dev, resp, notified, sigCh, attach, waiter, snap0, hist >>

\* As CleanupRemove, but trying the remove again after it failed.
CleanupRemoveRetrying ==
    /\ Alive /\ pc = "remove_dev"
    /\ \E ok \in BOOLEAN :
         /\ ok => (Exists(resp) /\ ~Running(resp))
         /\ calls' = Append(calls, Call("main", "remove", resp, ok, None))
         /\ engine' = IF ok THEN [engine EXCEPT ![resp] = Absent] ELSE engine
         /\ pc' = IF ok THEN "create_orig" ELSE "remove_dev"
    /\ UNCHANGED << containerName, heap, containerID, containerJSON, dev, resp, notified,
                    sigCh, attach, waiter, snap0, hist, exitCode, exitBy >>

\* main.go:81-85.
CleanupRemove ==
    /\ Alive /\ pc = "remove_dev"
    /\ \E ok \in BOOLEAN :
         /\ ok => (Exists(resp) /\ ~Running(resp))
         /\ calls' = Append(calls, Call("main", "remove", resp, ok, None))
         /\ IF ok
            THEN /\ engine' = [engine EXCEPT ![resp] = Absent]
                 /\ pc' = "create_orig"
                 /\ UNCHANGED << exitCode, exitBy >>
            ELSE /\ Exit(1, "main")
                 /\ UNCHANGED engine
    /\ UNCHANGED << containerName, heap, containerID, containerJSON, dev, resp, notified,
                    sigCh, attach, waiter, snap0, hist >>

\* ------------------------------------------------------------ recreateOriginalContainer
\* main.go:57-60.
RecreateCreate ==
    /\ Alive /\ pc = "create_orig"
    /\ LET arg == CreateArg(heap, containerJSON.Config, containerJSON.HostConfig,
                            dev.networkingConfig, containerJSON.Name)
       IN  \E ok \in BOOLEAN :
             /\ ok => (NameFree(arg.Name) /\ NextID \in IDs)
             /\ calls' = Append(calls, Call("main", "create", IF ok THEN NextID ELSE 0, ok, arg))
             /\ IF ok
                THEN /\ engine' = Created(NextID, arg)
                     /\ pc' = "start_orig"
                     /\ UNCHANGED << exitCode, exitBy >>
                ELSE /\ Exit(1, "main")
                     /\ UNCHANGED engine
    /\ UNCHANGED << containerName, heap, containerID, containerJSON, dev, resp, notified,
                    sigCh, attach, waiter, snap0, hist >>

\* The ID the last successful create returned (resp.ID of main.go:57).
LastCreated == NextID - 1

\* As RecreateStart, but dropping the error of ContainerStart.
RecreateStartUnchecked ==
    /\ Alive /\ pc = "start_orig"
    /\ \E ok \in BOOLEAN :
         /\ ok => Exists(LastCreated)
         /\ calls' = Append(calls, Call("main", "start", LastCreated, ok, None))
         /\ engine' = IF ok THEN [engine EXCEPT ![LastCreated].state = "running"] ELSE engine
    /\ pc' = "return"
    /\ UNCHANGED << containerName, heap, containerID, containerJSON, dev, resp, notified,
                    sigCh, attach, waiter, snap0, hist, exitCode, exitBy >>

\* main.go:62-66.
RecreateStart ==
    /\ Alive /\ pc = "start_orig"
    /\ \E ok \in BOOLEAN :
         /\ ok => Exists(LastCreated)
         /\ calls' = Append(calls, Call("main", "start", LastCreated, ok, None))
         /\ IF ok
            THEN /\ engine' = [engine EXCEPT ![LastCreated].state = "running"]
                 /\ pc' = "return"
                 /\ UNCHANGED << exitCode, exitBy >>
            ELSE /\ Exit(1, "main")
                 /\ UNCHANGED engine
    /\ UNCHANGED << containerName, heap, containerID, containerJSON, dev, resp, notified,
                    sigCh, attach, waiter, snap0, hist >>

\* main.go:293: main returns, the process exits with status 0.
MainReturn ==
    /\ Alive /\ pc = "return"
    /\ Exit(0, "main")
    /\ UNCHANGED << containerName, engine, heap, containerID, containerJSON, dev, resp,
                    notified, sigCh, attach, waiter, calls, snap0, hist >>

\* ------------------------------------------------------------ the outside world
\* SIGINT reaches the process.  Before signal.Notify the default action kills
\* it (status 130 to the shell); after it the runtime does a non-blocking send
\* on sigCh, dropping the signal when the buffer is full.
Interrupt ==
    /\ Alive
    /\ hist' = [hist EXCEPT !.interrupted = TRUE,
                            !.intrRun = hist.intrRun \/ pc = "recv"]
    /\ IF ~notified
       THEN /\ Exit(130, "signal")
            /\ UNCHANGED sigCh
       ELSE /\ sigCh' = IF Len(sigCh) < 1 THEN Append(sigCh, os_Interrupt) ELSE sigCh
            /\ UNCHANGED << pc, exitCode, exitBy >>
    /\ UNCHANGED << containerName, engine, heap, containerID, containerJSON, dev, resp,
                    notified, attach, waiter, calls, snap0 >>

\* The dev container's process exits on its own, with status 0 or not.
DevExits ==
    /\ Alive /\ Running(resp)
    /\ \E st \in {0, 1} :
         engine' = [engine EXCEPT ![resp].state = "exited", ![resp].status = st]
    /\ hist' = [hist EXCEPT !.selfExitRun = hist.selfExitRun \/ pc = "recv"]
    /\ UNCHANGED << containerName, heap, pc, exitCode, exitBy, containerID, containerJSON,
                    dev, resp, notified, sigCh, attach, waiter, calls, snap0 >>

\* ------------------------------------------------------------ specification
Main ==
    \/ MainLocate \/ MainSnapshot
    \/ RemoveOriginalStop \/ RemoveOriginalWait \/ RemoveOriginalRemove
    \/ MainDerive \/ MainNotify
    \/ StartDevCreate \/ StartDevStart
    \/ MainReceive
    \/ CleanupInspect \/ CleanupStop \/ CleanupWait \/ CleanupRemove
    \/ RecreateCreate \/ RecreateStart
    \/ MainReturn

Goroutines == AttachRun \/ AttachSend \/ WaiterWait \/ WaiterSend

World == Interrupt \/ DevExits

Next == Main \/ Goroutines \/ World

Spec == Init /\ [][Next]_vars

\* A step of main other than a wait that ends on the error channel.
MainProceeds ==
    /\ Main
    /\ ~(Len(calls') > Len(calls) /\ calls'[Len(calls')].op = "wait" /\ ~calls'[Len(calls')].ok)

\* main is a running thread of a live process, and the engine answers the
\* calls it can answer: main takes its next step whenever one is possible.  A
\* wait is answered once its container is not running; nothing makes the
\* error channel of a wait fire.
FairSpec == Spec /\ WF_vars(MainProceeds)

\* The goroutines are scheduled too: a send that can go through does.
LiveSpec == FairSpec /\ WF_vars(AttachSend) /\ WF_vars(WaiterSend)

\* ------------------------------------------------------------ the derivation alone
\* The states in which main calls devContainerConfiguration (main.go:272): the
\* original container, created with some environment and some mounts, has been
\* found, inspected, stopped and removed.
DeriveInit ==
    \E env \in DeriveEnvLists, mounts \in MountLists, slack \in 0..MaxSlack :
        LET c0 == [ names |-> <<"/api">>, state |-> "running", status |-> 0,
                    spec |-> [OrigSpec(env) EXCEPT !.HostConfig.Mounts = mounts] ]
        IN  /\ containerName = "api"
            /\ engine = [Engine0(env, "running") EXCEPT ![OrigID] = Absent]
            /\ heap = << EnvArrayOf(c0, slack) >>
            /\ pc = "derive"
            /\ exitCode = -1
            /\ exitBy = "none"
            /\ containerID = OrigID
            /\ containerJSON = InspectOf(c0, OrigID, 1, slack)
            /\ dev = None
            /\ resp = 0
            /\ notified = FALSE
            /\ sigCh = <<>>
            /\ attach = "none"
            /\ waiter = "none"
            /\ calls = << Call("main", "list", 0, TRUE, None),
                          Call("main", "inspect", OrigID, TRUE, None),
                          Call("main", "stop", OrigID, TRUE, None),
                          Call("main", "wait", OrigID, TRUE, None),
                          Call("main", "remove", OrigID, TRUE, None) >>
            /\ snap0 = SnapshotValue(heap, containerJSON)
            /\ hist = [interrupted |-> FALSE, intrRun |-> FALSE, selfExitRun |-> FALSE,
                       attachRun |-> FALSE, recv |-> 0]

DeriveSpec == DeriveInit /\ [][MainDerive]_vars

\* ------------------------------------------------------------ reading the call log
\* Some engine call returned an error.
AnyCallFailed == \E k \in DOMAIN calls : ~calls[k].ok

\* `docker attach` returned an error (and its goroutine ended the process).
AttachFailed == exitBy = "attach"

\* calls[k] is the successful remove of the dev container.
DevRemovedAt(k) ==
    resp # 0 /\ calls[k].op = "remove" /\ calls[k].id = resp /\ calls[k].ok

\* calls[k] is the create of RECREATE_ORIGINAL: main's create after the
\* termination event was received.
IsRecreateCreate(k) ==
    /\ calls[k].op = "create" /\ calls[k].by = "main"
    /\ \E j \in 1..(k - 1) : calls[j].op = "inspect" /\ calls[j].id = resp /\ resp # 0

\* The dev container was removed, then a container with the original's name
\* was created and started.
OriginalRestored ==
    \E j, k, l \in DOMAIN calls :
        /\ j < k /\ k < l
        /\ DevRemovedAt(j)
        /\ IsRecreateCreate(k) /\ calls[k].ok /\ calls[k].arg.Name = snap0.Name
        /\ calls[l].op = "start" /\ calls[l].id = calls[k].id /\ calls[l].ok

Done == pc = "exited" /\ exitBy = "main" /\ exitCode = 0

\* ------------------------------------------------------------ claims
\* C1: when an interrupt was delivered while main waited in RUN (the original
\* removed, the dev container created and started) and every engine call
\* succeeded, then, whatever the interleaving of the two goroutines with
\* main, the process ends with the dev container removed, the original's name
\* created and started after that, and main done with status 0.
C1_RestoreOnInterrupt ==
    (pc = "exited" /\ hist.intrRun /\ ~AnyCallFailed)
    => (Done /\ OriginalRestored /\ ~Exists(resp))

\* What holds of the code instead: under FairSpec the interrupt leads to the
\* restored original unless an engine call fails or the attach goroutine ends
\* the process first.
RestoreOnInterruptUnlessAttachFails ==
    hist.intrRun ~> (AnyCallFailed \/ AttachFailed \/ (Done /\ OriginalRestored /\ ~Exists(resp)))

RestoreOnInterruptReached ==
    hist.intrRun /\ Done /\ OriginalRestored /\ ~AnyCallFailed /\ attach = "done" /\ waiter = "send"

\* C2: an attach process that ends with an error is a termination trigger:
\* the process never exits on the attach error with the original container
\* not recreated.
C2_AttachFailureNotAbort ==
    (pc = "exited" /\ AttachFailed) => OriginalRestored

\* calls[k] is a call of TEARDOWN_DEV: main's inspect, stop, wait or remove
\* of the dev container.
IsTeardownDevCall(k) ==
    /\ resp # 0 /\ calls[k].by = "main" /\ calls[k].id = resp
    /\ calls[k].op \in {"inspect", "stop", "wait", "remove"}

\* C3: when the inspect, stop or remove of the dev container failed in
\* TEARDOWN_DEV, main still issued the create of RECREATE_ORIGINAL before
\* it ended the process.
C3_DevTeardownNeverBlocks ==
    ( /\ pc = "exited" /\ exitBy = "main"
      /\ \E k \in DOMAIN calls :
           IsTeardownDevCall(k) /\ calls[k].op # "wait" /\ ~calls[k].ok )
    => \E k \in DOMAIN calls : IsRecreateCreate(k)

\* C4: when the dev container exited on its own while main waited in RUN,
\* no interrupt came and every engine call succeeded, the process ends with
\* status 0, the dev container removed without a stop, the original
\* recreated.
C4_RestoreOnDevExit ==
    (pc = "exited" /\ hist.selfExitRun /\ ~hist.interrupted /\ ~AnyCallFailed)
    => /\ exitCode = 0
       /\ OriginalRestored
       /\ \A k \in DOMAIN calls : ~(IsTeardownDevCall(k) /\ calls[k].op = "stop")

AfterRun ==
    {"inspect_dev", "stop_dev", "wait_dev", "remove_dev", "create_orig", "start_orig", "return"}

Names0 ==
    UNION { { Engine0(<<>>, "running")[i].names[k] :
                k \in 1..Len(Engine0(<<>>, "running")[i].names) } : i \in IDs }

EngineUntouched == \E env \in EnvLists, st \in {"running", "exited"} : engine = Engine0(env, st)

\* C6: when the list call failed or no container is named "/" + name, the
\* process has exited with a non-zero status, the list is the only call ever
\* issued and the engine's containers are as they were.
C6_LookupFailureSideEffectFree ==
    (calls # <<>> /\ (~calls[1].ok \/ ("/" \o containerName) \notin Names0))
    => /\ pc = "exited" /\ exitCode \notin {-1, 0}
       /\ Len(calls) = 1 /\ calls[1].op = "list"
       /\ EngineUntouched

C6_Witness ==
    /\ calls # <<>> /\ calls[1].ok /\ ("/" \o containerName) \notin Names0
    /\ pc = "exited" /\ exitBy = "main"

\* C7: every stop of the original container comes after an inspect of it
\* that succeeded; after a failed inspect of it the process has exited with
\* a non-zero status, no further call was issued and the engine's containers
\* are as they were.
C7_SnapshotPrecedesTeardown ==
    /\ \A k \in DOMAIN calls :
         (calls[k].op = "stop" /\ calls[k].id = OrigID)
         => \E j \in 1..(k - 1) :
               calls[j].op = "inspect" /\ calls[j].id = OrigID /\ calls[j].ok
    /\ \A j \in DOMAIN calls :
         (calls[j].op = "inspect" /\ calls[j].id = OrigID /\ ~calls[j].ok)
         => /\ pc = "exited" /\ exitCode \notin {-1, 0}
            /\ j = Len(calls)
            /\ EngineUntouched

C7_Witness ==
    \E k \in DOMAIN calls : calls[k].op = "stop" /\ calls[k].id = OrigID /\ calls[k].ok

OrigNamedExists ==
    \E i \in IDs : Exists(i) /\ NameIn(engine[i].names, "/" \o containerName)

DevExists == resp # 0 /\ Exists(resp)

\* C8: the original-named container and the dev container never both
\* exist; the dev container is created only after the original's remove
\* succeeded, and the original is recreated only after the dev container's
\* remove succeeded.
C8_AtMostOneLive ==
    /\ ~(OrigNamedExists /\ DevExists)
    /\ \A k \in DOMAIN calls :
         (calls[k].op = "create" /\ ~IsRecreateCreate(k))
         => \E j \in 1..(k - 1) :
               calls[j].op = "remove" /\ calls[j].id = OrigID /\ calls[j].ok
    /\ \A k \in DOMAIN calls :
         IsRecreateCreate(k) => \E j \in 1..(k - 1) : DevRemovedAt(j)

C8_Witness ==
    DevExists /\ Running(resp) /\ ~OrigNamedExists /\ pc = "recv"

\* C9: building the dev configuration leaves every value of the snapshot as
\* the inspect returned it, and the create of RECREATE_ORIGINAL receives
\* exactly those values: name, configuration (image, command, entrypoint,
\* environment), host configuration (mounts) and networks.
C9_RecreateUsesSnapshot ==
    /\ containerJSON # None => SnapshotValue(heap, containerJSON) = snap0
    /\ snap0 # None =>
         /\ snap0.Name = "/" \o containerName
         /\ \E env \in EnvLists :
              /\ snap0.Config = OrigSpec(env).Config
              /\ snap0.HostConfig = OrigSpec(env).HostConfig
              /\ snap0.Networks = OrigSpec(env).Networks
    /\ \A k \in DOMAIN calls : IsRecreateCreate(k) => calls[k].arg = snap0

C9_Witness ==
    /\ \E k \in DOMAIN calls : IsRecreateCreate(k) /\ calls[k].ok
    /\ containerJSON.Config.Env.len > 0
    /\ containerJSON.Config.Env.cap > containerJSON.Config.Env.len
    /\ heap[containerJSON.Config.Env.ptr][containerJSON.Config.Env.len + 1] # ""

\* C10: a failed engine call of main outside TEARDOWN_DEV has ended the
\* process with a non-zero status and is main's last call; a run that went
\* through the whole cycle ends with status 0.
C10_FailFast ==
    /\ \A k \in DOMAIN calls :
         (calls[k].by = "main" /\ ~calls[k].ok /\ ~IsTeardownDevCall(k))
         => /\ pc = "exited" /\ exitCode \notin {-1, 0}
            /\ \A j \in (k + 1)..Len(calls) : calls[j].by # "main"
    /\ (pc = "exited" /\ OriginalRestored) => exitCode = 0

\* ------------------------------------------------------------ reading environments
\* The variable an environment entry sets: the text before its first "=".
RECURSIVE VarNameFrom(_, _)
VarNameFrom(e, i) ==
    IF i > Len(e) \/ SubSeq(e, i, i) = "=" THEN SubSeq(e, 1, i - 1)
    ELSE VarNameFrom(e, i + 1)

VarName(e) == VarNameFrom(e, 1)

HasPath(env) == \E i \in DOMAIN env : VarName(env[i]) = "PATH"

\* The first entry of env that sets PATH.
PathEntry(env) ==
    env[CHOOSE i \in DOMAIN env :
            /\ VarName(env[i]) = "PATH"
            /\ \A j \in 1..(i - 1) : VarName(env[j]) # "PATH"]

ToolchainSuffix == ":/go/bin:/usr/local/go/bin"

EndsWith(s, suffix) ==
    /\ Len(s) >= Len(suffix)
    /\ SubSeq(s, Len(s) - Len(suffix) + 1, Len(s)) = suffix

\* devContainerConfiguration panicked: the process died of it before any
\* dev configuration existed.
DerivePanicked == exitBy = "main" /\ exitCode = 2 /\ dev = None

\* The environment of the dev configuration, as a list of values.
DevEnv == Elems(heap, dev.config.Env)

\* ------------------------------------------------------------ C11
\* C11: when no entry of the original environment sets the variable PATH (the
\* empty list and lists with entries of fewer than four characters included),
\* the derivation does not fail, and the dev environment is the original one
\* followed by one entry that ends in ":/go/bin:/usr/local/go/bin" (the
\* toolchain entry) before the marker.
C11_MissingPathDegrades ==
    (snap0 # None /\ ~HasPath(snap0.Config.Env)) =>
        /\ ~DerivePanicked
        /\ dev # None =>
              LET n == Len(snap0.Config.Env)
              IN  /\ Len(DevEnv) = n + 2
                  /\ SubSeq(DevEnv, 1, n) = snap0.Config.Env
                  /\ EndsWith(DevEnv[n + 1], ToolchainSuffix)

\* ------------------------------------------------------------ C12
\* C12: whatever mounts the original configuration had, the mount list of the
\* dev configuration is exactly four bind mounts, in this order: sourcePath
\* to targetPath, $HOME/.ssh to /root/.ssh, $HOME/.gitconfig to
\* /root/.gitconfig, $HOME/go/pkg to /go/pkg.
C12_MountsReplaced ==
    dev # None =>
        /\ Len(dev.hostConfig.Mounts) = 4
        /\ \A i \in 1..4 : dev.hostConfig.Mounts[i].Type = "bind"
        /\ [i \in 1..4 |-> <<dev.hostConfig.Mounts[i].Source, dev.hostConfig.Mounts[i].Target>>]
             = << <<sourcePath, targetPath>>,
                  <<HOME \o "/.ssh", "/root/.ssh">>,
                  <<HOME \o "/.gitconfig", "/root/.gitconfig">>,
                  <<HOME \o "/go/pkg", "/go/pkg">> >>
        /\ \A i \in 1..4 : DOMAIN dev.hostConfig.Mounts[i] = {"Type", "Source", "Target"}

\* A dev configuration derived from an original that had two bind mounts of
\* its own, one of them on the target path.
C12_Witness ==
    /\ dev # None
    /\ Len(snap0.HostConfig.Mounts) = 2
    /\ \E i \in 1..2 : snap0.HostConfig.Mounts[i].Target = targetPath

\* ------------------------------------------------------------ C13
\* The container a logged call is about: a create names it, every other call
\* gives its ID (the list is about none).
Target(k) == IF calls[k].op = "create" THEN calls[k].arg.Name ELSE calls[k].id

SameOperation(j, k) == calls[j].op = calls[k].op /\ Target(j) = Target(k)

\* Call j had returned when call k was issued.  The log holds the calls in
\* the order of their returns; a call of main is issued in the step it
\* returns in, the wait of the watcher goroutine (main.go:281) as soon as
\* the dev container has been started.
ReturnedBeforeIssued(j, k) ==
    /\ j < k
    /\ calls[k].by = "waiter" =>
          \E st \in DOMAIN calls :
              calls[st].op = "start" /\ calls[st].id = calls[k].id /\ j <= st

\* C13 as stated: every runtime call is attempted exactly once; after an
\* operation (list, inspect, stop, wait, remove, create, start) on a
\* container has returned an error, the same operation is never issued again
\* on that container in the same run.
C13_NeverAgainAfterError ==
    \A j, k \in DOMAIN calls :
        (ReturnedBeforeIssued(j, k) /\ SameOperation(j, k)) => calls[j].ok

\* C13, amended: no thread issues the same operation on the same container
\* twice, and an operation that returned an error is never issued again on
\* that container, with one exception: the wait on the dev container is
\* issued by the watcher goroutine and once more by cleanupDevContainer,
\* also when the watcher's wait has returned an error.
C13_NoRetries ==
    \A j, k \in DOMAIN calls :
        (j < k /\ SameOperation(j, k)) =>
            /\ calls[j].by # calls[k].by
            /\ calls[j].op = "wait" /\ calls[j].id = resp

\* The watcher's wait on the dev container returned an error and
\* cleanupDevContainer has then waited on the same container.
C13_Witness ==
    \E j, k \in DOMAIN calls :
        /\ j < k
        /\ calls[j].by = "waiter" /\ calls[j].op = "wait" /\ ~calls[j].ok
        /\ calls[k].by = "main" /\ calls[k].op = "wait" /\ calls[k].id = calls[j].id

\* ------------------------------------------------------------ C14
\* Call k is main's call of operation op on the original container.
OnOriginal(k, op) ==
    calls[k].by = "main" /\ calls[k].op = op /\ calls[k].id = containerID
    /\ containerID # 0

\* C14: the original container gets a stop with zero grace period, then main
\* blocks until the stop is observed, and only then issues the remove: a
\* remove of the original is preceded by a stop that succeeded and, after
\* it, a wait that reported the container not running; and after a failed
\* stop or remove of the original no container is ever created.
C14_TeardownOriginalOrdering ==
    /\ \A k \in DOMAIN calls :
          OnOriginal(k, "remove") =>
              \E i, j \in 1..(k - 1) :
                  /\ i < j
                  /\ OnOriginal(i, "stop") /\ calls[i].ok
                  /\ OnOriginal(j, "wait") /\ calls[j].ok
    /\ \A k \in DOMAIN calls :
          ((OnOriginal(k, "stop") \/ OnOriginal(k, "remove")) /\ ~calls[k].ok) =>
              /\ pc = "exited" /\ exitCode = 1
              /\ \A l \in DOMAIN calls : calls[l].op # "create"

\* ------------------------------------------------------------ C15
IsCleanupCall(c) ==
    /\ resp # 0 /\ c.by = "main" /\ c.id = resp
    /\ c.op \in {"inspect", "stop", "wait", "remove"}

\* The calls of cleanupDevContainer so far, in order.
CleanupCalls == SelectSeq(calls, IsCleanupCall)

CleanupOps == [i \in DOMAIN CleanupCalls |-> CleanupCalls[i].op]

IsPrefix(s, t) == Len(s) <= Len(t) /\ s = SubSeq(t, 1, Len(s))

\* C15: the dev container is torn down only after main has received the
\* TerminationEvent, beginning with an inspect; main then issues a stop
\* followed by a wait if and only if that inspect reported the container
\* running, and issues the remove in both cases: the teardown calls are
\* inspect, stop, wait, remove when it was running and inspect, remove when
\* it had exited, and the remove has been issued once main is past the
\* teardown.
C15_TeardownDevSteps ==
    /\ CleanupCalls # <<>> => hist.recv = 1
    /\ (CleanupCalls # <<>> /\ ~CleanupCalls[1].ok) => CleanupOps = <<"inspect">>
    /\ (CleanupCalls # <<>> /\ CleanupCalls[1].ok) =>
          IsPrefix(CleanupOps,
                   IF CleanupCalls[1].arg.Running
                   THEN <<"inspect", "stop", "wait", "remove">>
                   ELSE <<"inspect", "remove">>)
    /\ (hist.recv = 1 /\ pc \in {"create_orig", "start_orig", "return"}) =>
          CleanupOps[Len(CleanupOps)] = "remove"
    /\ (pc = "exited" /\ exitBy = "main" /\ CleanupCalls # <<>> /\ CleanupCalls[1].ok) =>
          \E i \in DOMAIN CleanupCalls : CleanupOps[i] = "remove"

\* The dev container had exited on its own: the inspect reported it not
\* running and main went straight to the remove.
C15_Witness ==
    /\ Len(CleanupCalls) = 2
    /\ CleanupCalls[1].ok /\ ~CleanupCalls[1].arg.Running
    /\ CleanupCalls[2].op = "remove" /\ CleanupCalls[2].ok
    /\ pc = "create_orig"

\* ------------------------------------------------------------ C16
\* The background wait on the dev container has returned.
WaiterReturned == \E k \in DOMAIN calls : calls[k].by = "waiter"

\* C16: when the background wait on the dev container has returned, with a
\* completion or with an error, the watcher goes on to send on sigCh, and
\* main leaves RUN.
C16_BothWaitOutcomesEndSession ==
    /\ [](WaiterReturned => waiter \in {"send", "done"})
    /\ [](waiter = "done" => (sigCh # <<>> \/ hist.recv = 1))
    /\ (WaiterReturned ~> pc # "recv")

\* The background wait returned an error, nothing else raised a signal, and
\* main has received the value the watcher sent.
C16_Witness ==
    /\ \E k \in DOMAIN calls : calls[k].by = "waiter" /\ ~calls[k].ok
    /\ waiter = "done" /\ attach = "run" /\ ~hist.interrupted
    /\ hist.recv = 1 /\ pc = "inspect_dev"

\* ------------------------------------------------------------ C17
\* C17: when an entry of the original environment sets the variable PATH,
\* the dev environment is the original one followed by that entry with
\* ":/go/bin:/usr/local/go/bin" appended and then by DEV_CONTAINER=true; an
\* entry of another variable whose name begins with PATH is not taken for it.
C17_PathMatchedByName ==
    (dev # None /\ HasPath(snap0.Config.Env)) =>
        DevEnv = snap0.Config.Env
                   \o << PathEntry(snap0.Config.Env) \o ToolchainSuffix, "DEV_CONTAINER=true" >>

\* ------------------------------------------------------------ C18
\* C18: once the stop of the original container has been requested, an
\* interrupt never ends the process by the default action of the signal, in
\* whatever phase it arrives; so no run is cut short by an interrupt with
\* the original container stopped or removed and not recreated.
C18_InterruptNeverKillsInSwapWindow ==
    (\E k \in DOMAIN calls : OnOriginal(k, "stop")) => exitBy # "signal"

\* ------------------------------------------------------------ C19
\* C19: once main has received the TerminationEvent, the process eventually
\* ends (by main's return or by a fatal abort); main never stays in
\* TEARDOWN_DEV forever, also when the stop of a running dev container
\* returned an error.
C19_DevTeardownTerminates == (hist.recv = 1) ~> (pc = "exited")

\* ------------------------------------------------------------ C20
\* C20: in every run that ends with exit status zero, the dev container has
\* been removed, a container with the original name has been created from
\* the snapshot, and its start succeeded; no run exits zero with the original
\* container missing or the dev container still there.
C20_ExitZeroImpliesRestored ==
    exitCode = 0 =>
        /\ OriginalRestored
        /\ \E k \in DOMAIN calls : IsRecreateCreate(k) /\ calls[k].ok /\ calls[k].arg = snap0
        /\ OrigNamedExists
        /\ ~DevExists

\* A run that ended with status zero, the recreated container running.
C20_Witness ==
    /\ Done
    /\ \E i \in IDs : NameIn(engine[i].names, snap0.Name) /\ engine[i].state = "running"

============================================================================
